---- MODULE Spec2Model ----
(***************************************************************************)
(* State machine of the App component (src/types.ts, lines 146-309) and of *)
(* the two service functions analyzePhoto / transformHairstyle (lines      *)
(* 41-126) it calls.                                                       *)
(*                                                                         *)
(* An action is one job of the browser's event loop: a UI event handler,   *)
(* the arrival of a pending result (FileReader load, getUserMedia, a       *)
(* provider reply, the host key-selection dialog), or the continuation of  *)
(* processImage after an await.  Continuations run before the next event   *)
(* is handled (TaskMayStart).                                              *)
(***************************************************************************)
EXTENDS Integers, Sequences, FiniteSets, TLC

\* ------------------------------------------------------------------ bounds
MaxRuns == 2      \* activations of handleFile/capturePhoto in one behaviour
MaxRecs == 2      \* longest recommendation list a provider response carries
MaxStreams == 1   \* getUserMedia requests pending or granted and not stopped
MaxDim == 7       \* largest videoWidth / videoHeight of a camera frame

\* ------------------------------------------------------------ value domains
NullImage == "null"
EmptyCanvas == "data:,"
Images == {"portraitA", "portraitB"}
StyleNames == {"Fade", "Crop"}

UPLOAD == "UPLOAD"
ANALYZING == "ANALYZING"
GENERATING == "GENERATING"
RESULT == "RESULT"
AppStep == {UPLOAD, ANALYZING, GENERATING, RESULT}

NoError == "null"
InvalidFileMsg == "Please upload a valid image file."
CameraDeniedMsg == "Camera access denied. Please use the upload option."
CredentialMsg == "Il servizio richiede una chiave API valida. Per favore, seleziona la tua chiave."
GenericMsg == "I nostri stilisti hanno riscontrato un problema tecnico. Riprova tra poco."

JsNull == [kind |-> "null"]
Pending == [kind |-> "pending"]

\* Messages of thrown errors, as sequences of tokens.
CredentialMarkers ==
  { <<"Requested", "entity", "was", "not", "found">>, <<"API_KEY">>, <<"403">> }
ProviderMessages ==
  { <<"got", "status:", "403", "Forbidden">>,
    <<"API_KEY", "not", "valid">>,
    <<"Requested", "entity", "was", "not", "found">>,
    <<"Failed", "to", "fetch">> }
EmptyResponseMsg == <<"Empty", "response", "from", "AI", "engine.">>
SyntaxErrorMsg == <<"Unexpected", "token">>
ParsePrefix == <<"Analysis", "failed", "to", "parse:">>
NoImagePartMsg == <<"Visualizer", "engine", "error:", "Failed", "to", "generate", "stylized", "image.">>
NoStylesMsg == <<"Could", "not", "generate", "styles.">>
NullBase64Msg == <<"Cannot", "read", "properties", "of", "null">>
NoRecommendationsMsg == <<"Cannot", "read", "properties", "of", "undefined">>

\* ------------------------------------------------------------------ helpers
Includes(msg, marker) ==
  \E i \in 1..(Len(msg) - Len(marker) + 1) :
    SubSeq(msg, i, i + Len(marker) - 1) = marker

RECURSIVE FilterNotNull(_)
FilterNotNull(seq) ==
  IF seq = <<>> THEN <<>>
  ELSE IF Head(seq) = JsNull THEN FilterNotNull(Tail(seq))
       ELSE <<Head(seq)>> \o FilterNotNull(Tail(seq))

\* ------------------------------------------------- provider replies (inputs)
Recommendation(i, n) == [id |-> i, name |-> n]

\* The provider names its recommendations in a fixed order; a longer list
\* repeats names (the names of one response need not be distinct).
StyleAt(i) == IF i % 2 = 1 THEN "Fade" ELSE "Crop"

RecommendationLists ==
  { [i \in 1..n |-> StyleAt(i)] : n \in 0..MaxRecs }

AnalysisObject(names) ==
  [kind |-> "object", faceShape |-> "Oval", hairTexture |-> "Wavy",
   recommendations |-> [i \in 1..Len(names) |-> Recommendation(i, names[i])]]

\* A JSON object that parses but has no recommendations member.
PartialObject == [kind |-> "object", faceShape |-> "Oval", hairTexture |-> "Wavy"]

JsonValues == { AnalysisObject(names) : names \in RecommendationLists } \cup {PartialObject}

\* response.text of the analysis call: absent/empty, not JSON, or the JSON text of a value.
EmptyText == [len |-> 0]
GarbageText == [len |-> 1, json |-> FALSE]
JsonText(v) == [len |-> 1, json |-> TRUE, value |-> v]

AnalysisReplies ==
  { [kind |-> "throw", message |-> m] : m \in ProviderMessages }
    \cup { [kind |-> "response", text |-> t] :
             t \in {EmptyText, GarbageText} \cup { JsonText(v) : v \in JsonValues } }

SynthesisReplies ==
  { [kind |-> "throw", message |-> m] : m \in ProviderMessages }
    \cup { [kind |-> "response", hasImagePart |-> b] : b \in BOOLEAN }

\* ------------------------------------------------------- service functions
Return(v) == [ok |-> TRUE, value |-> v]
Throw(m) == [ok |-> FALSE, message |-> m]

JsonParse(text) ==
  IF text.json THEN Return(text.value) ELSE Throw(SyntaxErrorMsg)

\* analyzePhoto: the request is awaited outside the try block, so a rejected
\* request propagates its own message; an empty or unparsable text is rethrown
\* with the "Analysis failed to parse: " prefix; the parsed value is returned
\* as it is.
AnalyzePhoto(base64, reply) ==
  IF base64 = NullImage THEN Throw(NullBase64Msg)
  ELSE IF reply.kind = "throw" THEN Throw(reply.message)
  ELSE IF reply.text.len = 0 THEN Throw(ParsePrefix \o EmptyResponseMsg)
  ELSE LET parsed == JsonParse(reply.text)
       IN  IF parsed.ok THEN parsed ELSE Throw(ParsePrefix \o parsed.message)

\* The provider's picture of base64 wearing styleName.
Rendering(base64, styleName) == [src |-> base64, look |-> styleName]

TransformHairstyle(base64, styleName, reply) ==
  IF base64 = NullImage THEN Throw(NullBase64Msg)
  ELSE IF reply.kind = "throw" THEN Throw(reply.message)
  ELSE IF reply.hasImagePart
       THEN Return([mime |-> "image/png", data |-> Rendering(base64, styleName)])
       ELSE Throw(NoImagePartMsg)

\* ----------------------------------------------------------- capturePhoto
\* A <video> with no stream, or whose stream has delivered no metadata yet.
NoFrame == [videoWidth |-> 0, videoHeight |-> 0]

\* The frame the camera delivers for { width: { ideal: 1080 }, height: { ideal: 1080 } }.
IdealFrame == [videoWidth |-> MaxDim, videoHeight |-> MaxDim]

FrameSizes == [videoWidth : 0..MaxDim, videoHeight : 0..MaxDim]

\* The number n / 2 (the division of capturePhoto is not an integer division).
Half(n) == [twice |-> n]

\* Mutation of CropSize: the longer side of the frame is taken.
CropSizeMax(videoWidth, videoHeight) ==
  IF videoWidth >= videoHeight THEN videoWidth ELSE videoHeight

\* Math.min(video.videoWidth, video.videoHeight)
CropSize(videoWidth, videoHeight) ==
  IF videoWidth <= videoHeight THEN videoWidth ELSE videoHeight

\* The canvas after capturePhoto has sized it and drawn the frame v into it.
DrawCrop(v) ==
  LET size == CropSize(v.videoWidth, v.videoHeight)
      startX == Half(v.videoWidth - size)
      startY == Half(v.videoHeight - size)
  IN  [kind |-> "canvas", width |-> size, height |-> size,
       drawImage |-> [image |-> v, sx |-> startX, sy |-> startY,
                      sWidth |-> size, sHeight |-> size,
                      dx |-> 0, dy |-> 0, dWidth |-> size, dHeight |-> size]]

\* ------------------------------------------------------------------- state
VARIABLES
  step,        \* useState<AppStep>
  image,       \* useState<string | null>
  analysis,    \* useState<AnalysisResult | null>
  results,     \* useState<GeneratedStyle[]>
  error,       \* useState<string | null>
  showCamera,  \* useState(false)
  runs,        \* the live activations of handleFile / processImage
  gumPending,  \* getUserMedia promises not yet settled
  srcObject,   \* TRUE iff the mounted <video> element has a stream attached
  liveStreams, \* granted streams whose tracks were never stopped
  video,       \* videoWidth and videoHeight of the frame the <video> plays
  canvas,      \* what capturePhoto has drawn: the canvas size and the source rectangle
  loadingMsgIdx, \* useState(0)
  effectStep,  \* the step of the last committed render (the effect's dependency)
  interval,    \* TRUE iff the last run of the effect has set its interval variable
  timers       \* timers of window.setInterval that were never cleared

session == <<step, image, analysis, results, error>>
camera == <<showCamera, gumPending, srcObject, liveStreams>>
optics == <<video, canvas>>
rotation == <<loadingMsgIdx, effectStep, interval, timers>>
vars == <<step, image, analysis, results, error, showCamera, runs,
          gumPending, srcObject, liveStreams, video, canvas,
          loadingMsgIdx, effectStep, interval, timers>>

RunIds == 1..MaxRuns

\* One activation of handleFile / capturePhoto and of the processImage call it
\* makes.  pc is where the activation stands:
\*   "idle"       not started
\*   "reading"    FileReader busy (base64 holds the file's content)
\*   "analyzing"  the request of analyzePhoto is pending
\*   "analyzed"   analyzePhoto has settled with outcome; the continuation of
\*                processImage is a runnable job
\*   "generating" awaiting Promise.all over the calls; settled[i] is Pending
\*                or what generation promise i was fulfilled with
\*   "selectKey"  handleApiError awaiting openSelectKey
\*   "done"       returned or abandoned
\* stale is a history flag: reset ran while this activation was in flight.
IdleRun ==
  [pc |-> "idle", base64 |-> NullImage, stale |-> FALSE, outcome |-> JsNull,
   analysisResult |-> JsNull, calls |-> <<>>, settled |-> <<>>]

DoneRun == [IdleRun EXCEPT !.pc = "done"]

Session == [step |-> step, image |-> image, analysis |-> analysis,
            results |-> results, error |-> error]

SetSession(s) ==
  /\ step' = s.step
  /\ image' = s.image
  /\ analysis' = s.analysis
  /\ results' = s.results
  /\ error' = s.error

Init ==
  /\ step = UPLOAD
  /\ image = NullImage
  /\ analysis = JsNull
  /\ results = <<>>
  /\ error = NoError
  /\ showCamera = FALSE
  /\ runs = [r \in RunIds |-> IdleRun]
  /\ gumPending = 0
  /\ srcObject = FALSE
  /\ liveStreams = 0
  /\ video = NoFrame
  /\ canvas = JsNull
  /\ loadingMsgIdx = 0
  /\ effectStep = UPLOAD
  /\ interval = FALSE
  /\ timers = 0

\* -------------------------------------------------------- handleApiError
IsCredentialError(message) ==
  \E marker \in CredentialMarkers : Includes(message, marker)

\* The part of handleApiError that runs before it first suspends, applied to
\* the session s.  awaiting: the handler is suspended in openSelectKey and has
\* not yet called setStep.
HandleApiError(s, message, hasKeySelector) ==
  IF IsCredentialError(message)
  THEN IF hasKeySelector
       THEN [s |-> [s EXCEPT !.error = CredentialMsg], awaiting |-> TRUE]
       ELSE [s |-> [s EXCEPT !.error = CredentialMsg, !.step = UPLOAD], awaiting |-> FALSE]
  ELSE [s |-> [s EXCEPT !.error = GenericMsg, !.step = UPLOAD], awaiting |-> FALSE]

\* catch (err) { handleApiError(err) } of processImage, for the activation run.
CatchApiError(s, run, message, hasKeySelector) ==
  LET h == HandleApiError(s, message, hasKeySelector)
  IN  [s |-> h.s,
       run |-> IF h.awaiting
               THEN [DoneRun EXCEPT !.pc = "selectKey", !.stale = run.stale]
               ELSE DoneRun]

\* ----------------------------------------------------------- processImage
\* setError(null); setStep(ANALYZING)
ProcessImageStart(s) == [s EXCEPT !.error = NoError, !.step = ANALYZING]

\* processImage(base64) up to its first suspension, for the activation run.
\* analyzePhoto reads the image before it sends anything, so a null image
\* settles the call at once.
ProcessImage(s, run, base64) ==
  [s |-> ProcessImageStart(s),
   run |-> IF base64 = NullImage
           THEN [run EXCEPT !.pc = "analyzed", !.base64 = base64,
                            !.outcome = AnalyzePhoto(base64, JsNull)]
           ELSE [run EXCEPT !.pc = "analyzing", !.base64 = base64]]

\* Mutation of IssueCalls: the last recommendation is skipped.
IssueCallsDropsLast(base64, recommendations) ==
  [i \in 1..(Len(recommendations) - 1) |->
     [image |-> base64, styleName |-> recommendations[i].name]]

\* analysisResult.recommendations.map(async rec => transformHairstyle(base64, rec.name))
IssueCalls(base64, recommendations) ==
  [i \in 1..Len(recommendations) |->
     [image |-> base64, styleName |-> recommendations[i].name]]

\* One promise of generationPromises: the style on success, null on any failure.
GenerationPromise(call, rec, reply) ==
  LET o == TransformHairstyle(call.image, call.styleName, reply)
  IN  IF o.ok THEN [kind |-> "style", style |-> rec, imageUrl |-> o.value]
      ELSE JsNull

\* Mutation of AllSettled: the join waits for the first call only.
SomeSettled(settled) == \E i \in 1..Len(settled) : settled[i] # Pending

\* Promise.all(generationPromises) is fulfilled: no promise is still pending
\* (none of them can reject, each catches its own failure).
AllSettled(settled) == \A i \in 1..Len(settled) : settled[i] # Pending

\* Mutation of Aggregate: the null entries are not filtered out.
AggregateKeepsNulls(settled) == settled

\* (await Promise.all(...)).filter(r => r !== null)
Aggregate(settled) == FilterNotNull(settled)

\* The continuation of processImage after analyzePhoto has settled.
AfterAnalysis(s, run, hasKeySelector) ==
  IF ~run.outcome.ok
  THEN CatchApiError(s, run, run.outcome.message, hasKeySelector)
  ELSE LET analysisResult == run.outcome.value
           s1 == [s EXCEPT !.analysis = analysisResult, !.step = GENERATING]
       IN  IF "recommendations" \notin DOMAIN analysisResult
           THEN CatchApiError(s1, run, NoRecommendationsMsg, hasKeySelector)
           ELSE LET calls == IssueCalls(run.base64, analysisResult.recommendations)
                IN  [s |-> s1,
                     run |-> [run EXCEPT !.pc = "generating",
                                         !.outcome = JsNull,
                                         !.analysisResult = analysisResult,
                                         !.calls = calls,
                                         !.settled = [i \in 1..Len(calls) |-> Pending]]]

\* Mutation of Join: the empty aggregate is not treated as a failure.
JoinWithoutEmptyCheck(s, run, hasKeySelector) ==
  [s |-> [s EXCEPT !.results = Aggregate(run.settled), !.step = RESULT],
   run |-> DoneRun]

\* The continuation of processImage after Promise.all is fulfilled.
Join(s, run, hasKeySelector) ==
  LET generatedResults == Aggregate(run.settled)
  IN  IF Len(generatedResults) = 0
      THEN CatchApiError(s, run, NoStylesMsg, hasKeySelector)
      ELSE [s |-> [s EXCEPT !.results = generatedResults, !.step = RESULT],
            run |-> DoneRun]

\* ----------------------------------------------------------------- actions
\* file.type as the sequence <<top-level type with its slash, subtype>>; the
\* empty sequence is the empty string a browser gives an unknown file.
FileTypes == { <<"image/", "png">>, <<"image/", "jpeg">>, <<"text/", "plain">>, <<>> }
Files == [type : FileTypes, content : Images]

\* Mutation of StartsWith: any non-empty declared type is accepted.
StartsWithAnyType(type, prefix) == Len(type) >= Len(prefix)

StartsWith(type, prefix) ==
  Len(type) >= Len(prefix) /\ SubSeq(type, 1, Len(prefix)) = prefix

HasFreeRun == \E r \in RunIds : runs[r].pc = "idle"
FreeRun == CHOOSE r \in RunIds : runs[r].pc = "idle" /\ \A q \in RunIds : runs[q].pc = "idle" => r <= q

\* A promise continuation (a job of the microtask queue) is runnable for run.
JobReady(run) ==
  \/ run.pc = "analyzed"
  \/ run.pc = "generating" /\ AllSettled(run.settled)

\* The browser starts a task (an event handler, the arrival of a result) only
\* when the microtask queue is empty.
TaskMayStart == \A r \in RunIds : ~JobReady(runs[r])

\* ------------------------------------------------------- useEffect([step])
\* LOADING_MESSAGES.length
NumLoadingMessages == 6

Loading == {ANALYZING, GENERATING}

\* Mutation of Cleanup: the effect returns no cleanup.
CleanupClearsNothing(hasInterval, active) == active

\* return () => clearInterval(interval): clears the timer of the run of the
\* effect it belongs to; clearInterval(undefined) clears nothing.
Cleanup(hasInterval, active) == IF hasInterval THEN active - 1 ELSE active

\* React renders when the task and its promise continuations are over.  When
\* the committed step differs from the step of the last commit, the cleanup
\* of the last run of the effect runs and then the effect itself.
Commit ==
  IF (\A r \in RunIds : ~JobReady(runs'[r])) /\ step' # effectStep
  THEN /\ effectStep' = step'
       /\ interval' = (step' \in Loading)
       /\ timers' = Cleanup(interval, timers) + (IF step' \in Loading THEN 1 ELSE 0)
  ELSE UNCHANGED <<effectStep, interval, timers>>

\* The callback of a live timer: setLoadingMsgIdx(prev => (prev + 1) % length).
\* The render it causes has the same step, so the effect does not run.
Tick ==
  /\ TaskMayStart
  /\ timers > 0
  /\ loadingMsgIdx' = (loadingMsgIdx + 1) % NumLoadingMessages
  /\ UNCHANGED <<session, camera, runs, optics, effectStep, interval, timers>>

Apply(r, out) ==
  /\ SetSession(out.s)
  /\ runs' = [runs EXCEPT ![r] = out.run]

\* The upload card (file input, drop zone) is rendered while step = UPLOAD and
\* the camera view is closed.
HandleFile(file) ==
  /\ TaskMayStart
  /\ step = UPLOAD /\ ~showCamera
  /\ IF ~StartsWith(file.type, <<"image/">>)
     THEN /\ error' = InvalidFileMsg
          /\ UNCHANGED <<step, image, analysis, results, runs>>
     ELSE /\ HasFreeRun
          /\ runs' = [runs EXCEPT ![FreeRun] = [IdleRun EXCEPT !.pc = "reading", !.base64 = file.content]]
          /\ UNCHANGED session
  /\ UNCHANGED camera
  /\ UNCHANGED optics
  /\ UNCHANGED loadingMsgIdx
  /\ Commit

\* reader.onloadend: fires when the read ends, with the data URI or, after a
\* failed read, with null.
FileLoaded(r, readOk) ==
  /\ TaskMayStart
  /\ runs[r].pc = "reading"
  /\ LET base64 == IF readOk THEN runs[r].base64 ELSE NullImage
     IN  Apply(r, ProcessImage([Session EXCEPT !.image = base64], runs[r], base64))
  /\ UNCHANGED camera
  /\ UNCHANGED optics
  /\ UNCHANGED loadingMsgIdx
  /\ Commit

\* The camera card is rendered with the upload card.
StartCamera ==
  /\ TaskMayStart
  /\ step = UPLOAD /\ ~showCamera
  /\ gumPending + liveStreams < MaxStreams
  /\ showCamera' = TRUE
  /\ gumPending' = gumPending + 1
  /\ UNCHANGED <<session, runs, srcObject, liveStreams>>
  /\ UNCHANGED optics
  /\ UNCHANGED loadingMsgIdx
  /\ Commit

\* getUserMedia is fulfilled: the stream is attached if a <video> is mounted,
\* otherwise the only reference to it is dropped.
GetUserMediaResolves ==
  /\ TaskMayStart
  /\ gumPending > 0
  /\ gumPending' = gumPending - 1
  /\ liveStreams' = liveStreams + 1
  /\ srcObject' = showCamera
  /\ video' = IF showCamera THEN IdealFrame ELSE video
  /\ UNCHANGED <<session, runs, showCamera, canvas>>
  /\ UNCHANGED loadingMsgIdx
  /\ Commit

GetUserMediaRejects ==
  /\ TaskMayStart
  /\ gumPending > 0
  /\ gumPending' = gumPending - 1
  /\ error' = CameraDeniedMsg
  /\ showCamera' = FALSE
  /\ srcObject' = FALSE
  /\ video' = NoFrame
  /\ UNCHANGED <<step, image, analysis, results, runs, liveStreams, canvas>>
  /\ UNCHANGED loadingMsgIdx
  /\ Commit

\* The back button of the camera view; the <video> is unmounted with the view.
DismissCamera ==
  /\ TaskMayStart
  /\ showCamera
  /\ showCamera' = FALSE
  /\ srcObject' = FALSE
  /\ video' = NoFrame
  /\ UNCHANGED <<session, runs, gumPending, liveStreams, canvas>>
  /\ UNCHANGED loadingMsgIdx
  /\ Commit

\* frame is what the canvas encodes when it has drawn a frame; a <video> with
\* no frame has videoWidth = videoHeight = 0 and the empty canvas encodes to
\* "data:,".  The <video> and the <canvas> are unmounted with the view; canvas
\* keeps what was drawn last.
CapturePhoto(frame) ==
  /\ TaskMayStart
  /\ showCamera
  /\ HasFreeRun
  /\ canvas' = DrawCrop(video)
  /\ LET base64 == IF canvas'.width > 0 THEN frame ELSE EmptyCanvas
     IN  Apply(FreeRun, ProcessImage([Session EXCEPT !.image = base64], IdleRun, base64))
  /\ liveStreams' = IF srcObject THEN liveStreams - 1 ELSE liveStreams
  /\ srcObject' = FALSE
  /\ video' = NoFrame
  /\ showCamera' = FALSE
  /\ UNCHANGED gumPending
  /\ UNCHANGED loadingMsgIdx
  /\ Commit

\* The provider's reply to the analysis request of r arrives (or the request fails).
AnalysisSettles(r, reply) ==
  /\ TaskMayStart
  /\ runs[r].pc = "analyzing"
  /\ runs' = [runs EXCEPT ![r].pc = "analyzed",
                          ![r].outcome = AnalyzePhoto(runs[r].base64, reply)]
  /\ UNCHANGED <<session, camera>>
  /\ UNCHANGED optics
  /\ UNCHANGED loadingMsgIdx
  /\ Commit

\* processImage resumes after await analyzePhoto(base64).
AnalysisContinues(r, hasKeySelector) ==
  /\ runs[r].pc = "analyzed"
  /\ Apply(r, AfterAnalysis(Session, runs[r], hasKeySelector))
  /\ UNCHANGED camera
  /\ UNCHANGED optics
  /\ UNCHANGED loadingMsgIdx
  /\ Commit

\* The provider's reply to call i of r arrives (or the request fails).
SynthesisSettles(r, i, reply) ==
  /\ TaskMayStart
  /\ runs[r].pc = "generating"
  /\ i \in 1..Len(runs[r].settled)
  /\ runs[r].settled[i] = Pending
  /\ runs' = [runs EXCEPT ![r].settled[i] =
                GenerationPromise(runs[r].calls[i], runs[r].analysisResult.recommendations[i], reply)]
  /\ UNCHANGED <<session, camera>>
  /\ UNCHANGED optics
  /\ UNCHANGED loadingMsgIdx
  /\ Commit

\* processImage resumes after await Promise.all(generationPromises).
JoinContinues(r, hasKeySelector) ==
  /\ runs[r].pc = "generating"
  /\ AllSettled(runs[r].settled)
  /\ Apply(r, Join(Session, runs[r], hasKeySelector))
  /\ UNCHANGED camera
  /\ UNCHANGED optics
  /\ UNCHANGED loadingMsgIdx
  /\ Commit

\* await openSelectKey() returns: setStep(UPLOAD).
SelectKeyResolves(r) ==
  /\ TaskMayStart
  /\ runs[r].pc = "selectKey"
  /\ Apply(r, [s |-> [Session EXCEPT !.step = UPLOAD], run |-> DoneRun])
  /\ UNCHANGED camera
  /\ UNCHANGED optics
  /\ UNCHANGED loadingMsgIdx
  /\ Commit

\* await openSelectKey() throws: handleApiError ends there, its rejection is
\* not handled by anyone.
SelectKeyRejects(r) ==
  /\ TaskMayStart
  /\ runs[r].pc = "selectKey"
  /\ Apply(r, [s |-> Session, run |-> DoneRun])
  /\ UNCHANGED camera
  /\ UNCHANGED optics
  /\ UNCHANGED loadingMsgIdx
  /\ Commit

InFlight(run) == run.pc \in {"analyzing", "analyzed", "generating", "selectKey"}

\* Mutation of Reset: setResults([]) is forgotten.
ResetKeepsResults ==
  /\ TaskMayStart
  /\ image' = NullImage
  /\ analysis' = JsNull
  /\ step' = UPLOAD
  /\ error' = NoError
  /\ runs' = [r \in RunIds |-> IF InFlight(runs[r]) THEN [runs[r] EXCEPT !.stale = TRUE] ELSE runs[r]]
  /\ UNCHANGED <<results, camera>>
  /\ UNCHANGED optics
  /\ loadingMsgIdx' = 0
  /\ Commit

\* The header logo (always rendered) and the button of the results screen.
Reset ==
  /\ TaskMayStart
  /\ image' = NullImage
  /\ analysis' = JsNull
  /\ results' = <<>>
  /\ step' = UPLOAD
  /\ error' = NoError
  /\ runs' = [r \in RunIds |-> IF InFlight(runs[r]) THEN [runs[r] EXCEPT !.stale = TRUE] ELSE runs[r]]
  /\ UNCHANGED camera
  /\ UNCHANGED optics
  /\ loadingMsgIdx' = 0
  /\ Commit

\* The close button of the error banner.
DismissError ==
  /\ TaskMayStart
  /\ error # NoError
  /\ error' = NoError
  /\ UNCHANGED <<step, image, analysis, results, runs, camera>>
  /\ UNCHANGED optics
  /\ UNCHANGED loadingMsgIdx
  /\ Commit

Next ==
  \/ \E file \in Files : HandleFile(file)
  \/ \E r \in RunIds, readOk \in BOOLEAN : FileLoaded(r, readOk)
  \/ StartCamera
  \/ GetUserMediaResolves
  \/ GetUserMediaRejects
  \/ DismissCamera
  \/ \E frame \in Images : CapturePhoto(frame)
  \/ \E r \in RunIds, reply \in AnalysisReplies : AnalysisSettles(r, reply)
  \/ \E r \in RunIds, k \in BOOLEAN : AnalysisContinues(r, k)
  \/ \E r \in RunIds, i \in 1..MaxRecs, reply \in SynthesisReplies : SynthesisSettles(r, i, reply)
  \/ \E r \in RunIds, k \in BOOLEAN : JoinContinues(r, k)
  \/ \E r \in RunIds : SelectKeyResolves(r)
  \/ \E r \in RunIds : SelectKeyRejects(r)
  \/ Reset
  \/ DismissError

Spec == Init /\ [][Next]_vars

\* capturePhoto over every frame size: the camera view is open and its stream
\* plays a frame of any size up to MaxDim (0 before the first frame arrives).
CropInit ==
  /\ step = UPLOAD
  /\ image = NullImage
  /\ analysis = JsNull
  /\ results = <<>>
  /\ error = NoError
  /\ showCamera = TRUE
  /\ runs = [r \in RunIds |-> IdleRun]
  /\ gumPending = 0
  /\ srcObject = TRUE
  /\ liveStreams = 1
  /\ video \in FrameSizes
  /\ canvas = JsNull
  /\ loadingMsgIdx = 0
  /\ effectStep = UPLOAD
  /\ interval = FALSE
  /\ timers = 0

CropNext == \E frame \in Images : CapturePhoto(frame)

CropSpec == CropInit /\ [][CropNext]_vars

\* The session fed by file uploads, with the rotation timer ticking.  (The
\* camera reaches processImage through the same calls and does not touch step.)
TimerNext ==
  \/ \E file \in Files : HandleFile(file)
  \/ \E r \in RunIds, readOk \in BOOLEAN : FileLoaded(r, readOk)
  \/ \E r \in RunIds, reply \in AnalysisReplies : AnalysisSettles(r, reply)
  \/ \E r \in RunIds, k \in BOOLEAN : AnalysisContinues(r, k)
  \/ \E r \in RunIds, i \in 1..MaxRecs, reply \in SynthesisReplies : SynthesisSettles(r, i, reply)
  \/ \E r \in RunIds, k \in BOOLEAN : JoinContinues(r, k)
  \/ \E r \in RunIds : SelectKeyResolves(r)
  \/ \E r \in RunIds : SelectKeyRejects(r)
  \/ Reset
  \/ DismissError
  \/ Tick

TimerSpec == Init /\ [][TimerNext]_vars

\* ================================================================== claims
\* What the claims speak of, stated apart from the operators above.

\* The GeneratedStyle a successful call j of activation run produces.
StyleOf(run, j) ==
  [kind |-> "style",
   style |-> run.analysisResult.recommendations[j],
   imageUrl |-> [mime |-> "image/png",
                 data |-> Rendering(run.base64, run.analysisResult.recommendations[j].name)]]

\* The styles of the calls in S, in the order of the recommendations j..n.
RECURSIVE StylesInOrder(_, _, _, _)
StylesInOrder(run, S, j, n) ==
  IF j > n THEN <<>>
  ELSE (IF j \in S THEN <<StyleOf(run, j)>> ELSE <<>>) \o StylesInOrder(run, S, j + 1, n)

Succeeded(run) ==
  { j \in 1..Len(run.settled) : run.settled[j] # Pending /\ run.settled[j] # JsNull }

StillPending(run) == { j \in 1..Len(run.settled) : run.settled[j] = Pending }

\* This step is the continuation of activation r after its Promise.all.
Joins(r) ==
  /\ runs[r].pc = "generating"
  /\ StillPending(runs[r]) = {}
  /\ runs'[r].pc # "generating"

\* This step is the continuation of activation r after its analyzePhoto.
ContinuesAfterAnalysis(r) ==
  /\ runs[r].pc = "analyzed"
  /\ runs'[r].pc # "analyzed"

AnalysisSucceeded(run) ==
  run.outcome.ok /\ "recommendations" \in DOMAIN run.outcome.value

\* This step is taken by activation r itself (reset only marks it stale).
StepOf(r) == [runs'[r] EXCEPT !.stale = runs[r].stale] # runs[r]

SessionCleared ==
  /\ step = UPLOAD /\ image = NullImage /\ analysis = JsNull
  /\ results = <<>> /\ error = NoError

\* ------------------------------------------------------------------- C1
\* C1: once reset has run while an activation of processImage was waiting for
\* its analysis or synthesis calls, no later step of that activation changes
\* phase, image, analysis, results or error.
C1_StaleCompletionsChangeNothing ==
  [][\A r \in RunIds :
       (runs[r].stale /\ StepOf(r)) => UNCHANGED session]_vars

\* ------------------------------------------------------------------- C2
\* C2: when Promise.all of a run is fulfilled and K > 0 of its N calls have
\* succeeded, results becomes exactly the K styles of the succeeded calls, in
\* the order of the recommendations, and the phase becomes RESULT.
C2_ResultsAreSucceededInOrder ==
  [][\A r \in RunIds :
       (Joins(r) /\ Succeeded(runs[r]) # {})
       => /\ results' = StylesInOrder(runs[r], Succeeded(runs[r]), 1, Len(runs[r].calls))
          /\ Len(results') = Cardinality(Succeeded(runs[r]))
          /\ step' = RESULT]_vars

\* K = 1 of N = 2: the first call failed, the second succeeded.
C2_Witness ==
  /\ step = RESULT
  /\ "recommendations" \in DOMAIN analysis
  /\ Len(analysis.recommendations) = 2
  /\ Len(results) = 1
  /\ results[1].style = analysis.recommendations[2]
  /\ results[1].imageUrl.data.src = image

\* ------------------------------------------------------------------- C3
\* C3: when Promise.all of a run is fulfilled and none of its calls has
\* succeeded (K = 0, N >= 0), results is not written, the phase becomes UPLOAD
\* and not RESULT, and the generic retry-later message is the error shown;
\* the handler does not wait for a key selection.
C3_TotalFailureIsProviderError ==
  [][\A r \in RunIds :
       (Joins(r) /\ Succeeded(runs[r]) = {})
       => /\ results' = results
          /\ step' = UPLOAD
          /\ error' = GenericMsg
          /\ runs'[r].pc = "done"]_vars

\* Both calls of the only run started have failed.
C3_Witness ==
  /\ step = UPLOAD /\ error = GenericMsg /\ results = <<>>
  /\ "recommendations" \in DOMAIN analysis
  /\ Len(analysis.recommendations) = 2
  /\ runs[1].pc = "done"
  /\ \A r \in RunIds : r > 1 => runs[r].pc = "idle"

\* ------------------------------------------------------------------- C4
\* C4: when a run's remote-call failure is caught an error message is shown,
\* and when handleApiError is over (at once, or after openSelectKey has
\* resolved or rejected) the phase is UPLOAD.
C4_FailureReturnsToUpload ==
  [][\A r \in RunIds :
       /\ ((ContinuesAfterAnalysis(r) /\ ~AnalysisSucceeded(runs[r]))
             \/ (Joins(r) /\ Succeeded(runs[r]) = {}))
          => (error' # NoError /\ (runs'[r].pc = "done" => step' = UPLOAD))
       /\ (runs[r].pc = "selectKey" /\ runs'[r].pc = "done") => step' = UPLOAD]_vars

\* ------------------------------------------------------------------- C5
\* C5: whatever the phase, right after reset the phase is UPLOAD, image and
\* analysis are null, results is empty and error is null.
C5_ResetClearsSession ==
  [][Reset => SessionCleared']_vars

\* reset ran while a run was in GENERATING with its calls outstanding.
C5_Witness ==
  /\ SessionCleared
  /\ \E r \in RunIds :
       runs[r].stale /\ runs[r].pc = "generating" /\ StillPending(runs[r]) # {}

\* ------------------------------------------------------------------- C6
\* C6: the continuation after a successful analysis with N recommendations
\* issues exactly N calls, call i carrying the run's image and the name of
\* recommendation i; afterwards the run's calls never change, and a call that
\* has settled is never pending again (no retry).
C6_OneCallPerRecommendation ==
  [][\A r \in RunIds :
       /\ (ContinuesAfterAnalysis(r) /\ AnalysisSucceeded(runs[r]))
          => LET recs == runs[r].outcome.value.recommendations
             IN  /\ runs'[r].pc = "generating"
                 /\ Len(runs'[r].calls) = Len(recs)
                 /\ \A i \in 1..Len(recs) :
                      runs'[r].calls[i] = [image |-> runs[r].base64, styleName |-> recs[i].name]
                 /\ runs'[r].settled = [i \in 1..Len(recs) |-> Pending]
       /\ (runs[r].pc = "generating" /\ runs'[r].pc = "generating")
          => /\ runs'[r].calls = runs[r].calls
             /\ Len(runs'[r].settled) = Len(runs[r].calls)
             /\ \A i \in 1..Len(runs[r].settled) :
                  runs[r].settled[i] # Pending => runs'[r].settled[i] = runs[r].settled[i]
       /\ (runs[r].pc # "analyzed" /\ runs[r].pc # "generating")
          => runs'[r].calls = <<>>]_vars

\* Two calls are out for two recommendations, one has failed and is not retried.
C6_Witness ==
  \E r \in RunIds :
    /\ runs[r].pc = "generating"
    /\ Len(runs[r].analysisResult.recommendations) = 2
    /\ Len(runs[r].calls) = 2
    /\ runs[r].calls[1].styleName # runs[r].calls[2].styleName
    /\ runs[r].settled[2] = JsNull
    /\ runs[r].settled[1] = Pending

\* ------------------------------------------------------------------- C7
\* C7: all calls of a run are pending together when they are issued; while a
\* call of the run is still pending, a step of the run settles exactly one
\* call, leaves the others as they are, keeps the run in GENERATING and
\* changes nothing of the session; the run leaves GENERATING only when no
\* call is pending.
C7_JoinWaitsForAll ==
  [][\A r \in RunIds :
       /\ (runs[r].pc # "generating" /\ runs'[r].pc = "generating")
          => \A i \in 1..Len(runs'[r].settled) : runs'[r].settled[i] = Pending
       /\ (runs[r].pc = "generating" /\ StepOf(r) /\ StillPending(runs[r]) # {})
          => /\ UNCHANGED session
             /\ runs'[r].pc = "generating"
             /\ \E i \in StillPending(runs[r]) :
                  /\ runs'[r].settled[i] # Pending
                  /\ \A j \in 1..Len(runs[r].settled) :
                       j # i => runs'[r].settled[j] = runs[r].settled[j]
       /\ (runs[r].pc = "generating" /\ runs'[r].pc # "generating")
          => StillPending(runs[r]) = {}]_vars

\* The first call has failed; its sibling is still out and nothing is shown yet.
C7_Witness ==
  /\ step = GENERATING /\ results = <<>> /\ error = NoError
  /\ \E r \in RunIds :
       /\ runs[r].pc = "generating"
       /\ Len(runs[r].settled) = 2
       /\ runs[r].settled[1] = JsNull
       /\ runs[r].settled[2] = Pending

\* ------------------------------------------------------------------- C8
\* C8: calls are issued only by the continuation after a successful analysis;
\* a run whose analysis failed issues none, and when its error handling is
\* over the phase is UPLOAD.
C8_NoSynthesisWithoutAnalysis ==
  [][\A r \in RunIds :
       /\ runs'[r].calls # runs[r].calls /\ runs'[r].calls # <<>>
          => (ContinuesAfterAnalysis(r) /\ AnalysisSucceeded(runs[r]))
       /\ (ContinuesAfterAnalysis(r) /\ ~runs[r].outcome.ok)
          => (runs'[r].calls = <<>> /\ (runs'[r].pc = "done" => step' = UPLOAD))
       /\ (runs[r].pc = "selectKey" /\ StepOf(r))
          => (runs'[r].calls = <<>> /\ step' = UPLOAD)]_vars

\* ------------------------------------------------------------------- C9
\* C9: whenever the camera view is not shown, no granted stream has live tracks.
C9_NoStreamWithoutCameraView ==
  ~showCamera => liveStreams = 0

\* ------------------------------------------------------------------ C10
\* C10: the phase changes only by UPLOAD -> ANALYZING, ANALYZING -> GENERATING,
\* GENERATING -> RESULT, or to UPLOAD.
C10_PhaseOrder ==
  [][step' # step =>
       \/ step' = UPLOAD
       \/ (step = UPLOAD /\ step' = ANALYZING)
       \/ (step = ANALYZING /\ step' = GENERATING)
       \/ (step = GENERATING /\ step' = RESULT)]_vars

\* ------------------------------------------------------------------ C11
\* The error banner carries the "Update Key" button whenever an error is shown.
KeyActionOffered == error # NoError

\* The message holds one of the three credential markers.
HasCredentialMarker(message) ==
  \/ Includes(message, <<"403">>)
  \/ Includes(message, <<"API_KEY">>)
  \/ Includes(message, <<"Requested", "entity", "was", "not", "found">>)

\* This step hands the failed analysis of activation r to handleApiError.
CatchesAnalysisFailure(r) == ContinuesAfterAnalysis(r) /\ ~runs[r].outcome.ok

\* C11: a failure caught by processImage is shown as the credential error, with
\* the key-selection action offered, exactly when its message holds "403",
\* "API_KEY" or "Requested entity was not found"; every other caught failure is
\* shown as the generic retry-later error; in both cases the phase is UPLOAD
\* when the error handling is over.
C11_ClassifiesAndReturnsToUpload ==
  [][\A r \in RunIds :
       /\ CatchesAnalysisFailure(r)
          => /\ HasCredentialMarker(runs[r].outcome.message)
                => (error' = CredentialMsg /\ KeyActionOffered')
             /\ ~HasCredentialMarker(runs[r].outcome.message)
                => error' = GenericMsg
             /\ runs'[r].pc = "done" => step' = UPLOAD
       /\ (runs[r].pc = "selectKey" /\ StepOf(r)) => step' = UPLOAD]_vars

\* ------------------------------------------------------------------ C12
\* The declared media type of the file is not an image type.
NotAnImage(file) == file.type = <<>> \/ file.type[1] # "image/"

\* C12: handleFile, given a file whose declared type is not an image, sets the
\* invalid-file error and nothing else: the phase stays UPLOAD, image, analysis
\* and results are unchanged, no read is started and no call is issued.
C12_InvalidFileOnlySetsError ==
  [][\A file \in Files :
       (NotAnImage(file) /\ HandleFile(file))
       => /\ error' = InvalidFileMsg
          /\ step = UPLOAD /\ step' = UPLOAD
          /\ UNCHANGED <<image, analysis, results, runs, camera>>]_vars

\* A text file was chosen on the fresh upload screen.
C12_Witness ==
  /\ error = InvalidFileMsg /\ step = UPLOAD
  /\ image = NullImage /\ analysis = JsNull /\ results = <<>>
  /\ \A r \in RunIds : runs[r] = IdleRun

\* ------------------------------------------------------------------ C13
\* The value has the shape the AnalysisResult interface declares.
ConformsToSchema(v) ==
  /\ {"faceShape", "hairTexture", "recommendations"} \subseteq DOMAIN v
  /\ \A i \in 1..Len(v.recommendations) :
       {"id", "name"} \subseteq DOMAIN v.recommendations[i]

\* C13: analyzePhoto returns a value only for a payload that conforms to the
\* AnalysisResult schema (an empty, unparsable or non-conforming payload makes
\* it fail), so the analysis processImage records always conforms.
C13_OnlyConformingAnalysis ==
  /\ \A r \in RunIds :
       (runs[r].pc = "analyzed" /\ runs[r].outcome.ok)
       => ConformsToSchema(runs[r].outcome.value)
  /\ analysis # JsNull => ConformsToSchema(analysis)

\* ------------------------------------------------------------------ C16
\* C16: whenever the phase is RESULT, image is not null, analysis is not null
\* and results is not empty.
C16_ResultHasImageAnalysisResults ==
  step = RESULT => (image # NullImage /\ analysis # JsNull /\ results # <<>>)

\* ------------------------------------------------------------------ C17
\* The stored style was made from the stored image for a recommendation of the
\* stored analysis.
MadeFromStored(generated) ==
  /\ generated.imageUrl.data.src = image
  /\ "recommendations" \in DOMAIN analysis
  /\ \E j \in 1..Len(analysis.recommendations) :
       /\ generated.style = analysis.recommendations[j]
       /\ generated.imageUrl.data.look = analysis.recommendations[j].name

\* C17: whenever the phase is RESULT and an image is stored, the stored
\* analysis and every stored style come from the run that processed that
\* image, also when two acquisitions overlap without a reset (the cleared
\* image is the case of C16).
C17_ResultsBelongToStoredImage ==
  (step = RESULT /\ image # NullImage)
  => \A i \in 1..Len(results) : MadeFromStored(results[i])

\* ------------------------------------------------------------------ C14
\* C14: for every frame size, capturePhoto makes a square canvas of side
\* size = min(videoWidth, videoHeight) and draws into it the size x size
\* rectangle of the frame whose origin is ((videoWidth - size) / 2,
\* (videoHeight - size) / 2); the rectangle lies inside the frame.
C14_CentredSquareCrop ==
  canvas # JsNull
  => LET d == canvas.drawImage
         w == d.image.videoWidth
         h == d.image.videoHeight
         size == canvas.width
     IN  /\ size \in {w, h} /\ size <= w /\ size <= h
         /\ canvas.height = size
         /\ d.sWidth = size /\ d.sHeight = size
         /\ d.dx = 0 /\ d.dy = 0 /\ d.dWidth = size /\ d.dHeight = size
         /\ d.sx.twice = w - size /\ d.sy.twice = h - size
         /\ 0 <= d.sx.twice /\ d.sx.twice + 2 * size <= 2 * w
         /\ 0 <= d.sy.twice /\ d.sy.twice + 2 * size <= 2 * h

\* A landscape frame whose surplus width is odd was captured: the crop origin
\* is a half pixel.
C14_Witness ==
  /\ canvas # JsNull
  /\ canvas.drawImage.image.videoWidth > canvas.drawImage.image.videoHeight
  /\ canvas.drawImage.image.videoHeight > 0
  /\ canvas.drawImage.sx.twice % 2 = 1
  /\ image \in Images /\ step = ANALYZING

\* ------------------------------------------------------------------ C15
\* C15: between tasks exactly one rotation timer is live while the phase is
\* ANALYZING or GENERATING and none while it is UPLOAD or RESULT; there are
\* never two live timers; a tick advances the message index only in one of
\* the two loading phases.
C15_TimerOnlyWhileLoading ==
  /\ [](/\ timers <= 1
        /\ TaskMayStart => (timers = 1 <=> step \in {ANALYZING, GENERATING}))
  /\ [][Tick => (step \in {ANALYZING, GENERATING} /\ step' = step)]_vars

\* The run has gone from ANALYZING to GENERATING, one timer is live and its
\* ticks have brought the message index to the last message.
C15_Witness ==
  /\ step = GENERATING /\ effectStep = GENERATING
  /\ timers = 1 /\ loadingMsgIdx = NumLoadingMessages - 1
  /\ \E r \in RunIds : runs[r].pc = "generating" /\ StillPending(runs[r]) # {}

====
